---- MODULE Spec2Model ----
(***************************************************************************)
(* Model of src/cleanup.js: the BoldDesk attachment retention cleanup.     *)
(*                                                                         *)
(* run() walks the pages of the closed-ticket listing, for each ticket     *)
(* walks the pages of its attachment listing, and for each attachment      *)
(* either logs (DRY_RUN) or issues one DELETE, counting processed          *)
(* attachments and stopping at MAX_DELETES.  The helpdesk server is the    *)
(* environment: it holds a ticket listing and one attachment listing per   *)
(* ticket, answers every request with an HTTP status and a body, and may   *)
(* or may not drop a deleted attachment from later listing pages.          *)
(*                                                                         *)
(* src/unnamed/part_000 is an earlier iteration of the same file, cut off  *)
(* inside run(): the same two walks, dry-run branch and cap, with the      *)
(* route DELETE /attachments/{attachmentId} and no activity identifier.    *)
(* The model follows src/cleanup.js.                                       *)
(***************************************************************************)
EXTENDS Integers, Sequences, FiniteSets, TLC

\* ------------------------------------------------------------------------
\* Bounds of the model (not program constants)
\* ------------------------------------------------------------------------
MaxTicketPages == 3   \* full ticket pages a listing may hold
MaxAttPages == 2      \* full attachment pages one ticket may hold
MaxSmallTickets == 2  \* tickets of a freely mixed (small) listing
MaxSmallAtts == 2     \* attachments of a freely mixed (small) attachment list
MaxClock == 2         \* milliseconds the clock may advance during a run

\* ------------------------------------------------------------------------
\* Program constants
\* ------------------------------------------------------------------------
ticketsPerPage == 100
attachmentsPerPage == 50

\* ------------------------------------------------------------------------
\* JSON values.  A field of a record is <<>> when it is absent or null
\* (nullish in JavaScript) and <<v>> when it holds the value v.
\* ------------------------------------------------------------------------
Nullish == <<>>
Val(v) == <<v>>

\* a ?? b
Coalesce(a, b) == IF a = Nullish THEN b ELSE a

\* !x for a field holding a number: nullish and 0 are falsy
Falsy(x) == x = Nullish \/ x = Val(0)

\* ------------------------------------------------------------------------
\* Records returned by the listings
\* ------------------------------------------------------------------------
\* ticket records: the identifier is read as  t.id ?? t.ticketId
TicketWithId(i) == [id |-> Val(i), ticketId |-> Nullish]
TicketWithTicketId(i) == [id |-> Nullish, ticketId |-> Val(i)]
TicketWithoutId == [id |-> Nullish, ticketId |-> Nullish]

\* attachment records: the identifier is read as  a.id ?? a.attachmentId,
\* the activity identifier by getActivityIdFromAttachment
AttFull(i) ==
  [id |-> Val(i), attachmentId |-> Nullish, activityId |-> Val(i),
   updateId |-> Nullish, activityID |-> Nullish, updateID |-> Nullish]
AttByUpdateId(i) ==
  [id |-> Nullish, attachmentId |-> Val(i), activityId |-> Nullish,
   updateId |-> Val(i), activityID |-> Nullish, updateID |-> Nullish]
AttWithoutActivity(i) ==
  [id |-> Val(i), attachmentId |-> Nullish, activityId |-> Nullish,
   updateId |-> Nullish, activityID |-> Nullish, updateID |-> Nullish]
AttWithoutId ==
  [id |-> Nullish, attachmentId |-> Nullish, activityId |-> Val(1),
   updateId |-> Nullish, activityID |-> Nullish, updateID |-> Nullish]

\* ------------------------------------------------------------------------
\* Response bodies.  A decoded body is null, a scalar, an array, or an
\* object; of an object only the fields data and result matter.  A field
\* that is absent and a field that is null are kept apart.
\* ------------------------------------------------------------------------
JNull == [t |-> "null"]
JAbsent == [t |-> "absent"]
JScalar == [t |-> "scalar"]
JArray(s) == [t |-> "array", items |-> s]
JObject(d, r) == [t |-> "object", data |-> d, result |-> r]

IsArray(v) == v.t = "array"

\* resp?.field : undefined for null and for a scalar body and for an array
Field(resp, name) ==
  IF resp.t = "object"
    THEN (IF name = "data" THEN resp.data ELSE resp.result)
    ELSE JAbsent

\* x ?? y on JSON values: null and undefined fall through
JCoalesce(x, y) == IF x.t \in {"null", "absent"} THEN y ELSE x

\* mutant: result is looked up before data
normalizeArray_resultFirst(resp) ==
  LET arr == JCoalesce(Field(resp, "result"), JCoalesce(Field(resp, "data"), resp))
  IN  IF IsArray(arr) THEN arr.items ELSE <<>>

normalizeArray(resp) ==
  LET arr == JCoalesce(Field(resp, "data"), JCoalesce(Field(resp, "result"), resp))
  IN  IF IsArray(arr) THEN arr.items ELSE <<>>

\* ------------------------------------------------------------------------
\* Transport (bdFetch): a response is ok iff its status is 2xx; any other
\* status makes bdFetch throw
\* ------------------------------------------------------------------------
\* mutant: a 404 is taken for a success ("already gone")
resOk_notFound(status) == (status >= 200 /\ status <= 299) \/ status = 404

\* mutant: only a 5xx status counts as a failure
resOk_lenient(status) == status >= 200 /\ status <= 499

resOk(status) == status >= 200 /\ status <= 299

\* statuses the server may answer with
Statuses == {200, 401, 404, 500}

\* ------------------------------------------------------------------------
\* The server's content.  A scenario fixes the ticket listing and the
\* attachment listing of every ticket:
\*   n  tickets, the kind of the ticket at position i taken cyclically
\*      from tc;  the ticket at position i has the identifier i
\*   m  attachments per ticket, the kind of attachment j of ticket t taken
\*      cyclically from ac, starting at offset t
\* ------------------------------------------------------------------------
Cyc(c, i) == c[((i - 1) % Len(c)) + 1]

AttId(t, j) == t * 1000 + j

TicketOf(kind, i) ==
  CASE kind = "id" -> TicketWithId(i)
    [] kind = "ticketId" -> TicketWithTicketId(i)
    [] OTHER -> TicketWithoutId

AttOf(kind, t, j) ==
  CASE kind = "full" -> AttFull(AttId(t, j))
    [] kind = "update" -> AttByUpdateId(AttId(t, j))
    [] kind = "noact" -> AttWithoutActivity(AttId(t, j))
    [] OTHER -> AttWithoutId

TicketCycles ==
  { <<"id">>, <<"none">>, <<"none", "id">>, <<"ticketId", "none", "id">> }
AttCycles ==
  { <<"full">>, <<"noact">>, <<"noid", "update">>, <<"full", "noact", "noid">> }

SmallTicketCounts == 0..MaxSmallTickets
LongTicketCounts ==
  { k * ticketsPerPage + r : k \in 1..MaxTicketPages, r \in {0, 37} }
SmallAttCounts == 0..MaxSmallAtts
LongAttCounts ==
  { k * attachmentsPerPage + r : k \in 1..MaxAttPages, r \in {0, 7} }

Scenarios ==
  \* small listings, freely mixed
  { [n |-> n, tc |-> tc, m |-> m, ac |-> ac] :
      n \in SmallTicketCounts, tc \in TicketCycles,
      m \in SmallAttCounts, ac \in AttCycles }
  \cup
  \* ticket listings of several pages, at most one attachment per ticket
  { [n |-> n, tc |-> tc, m |-> m, ac |-> <<"full">>] :
      n \in LongTicketCounts, tc \in TicketCycles, m \in {0, 1} }
  \cup
  \* attachment listings of several pages
  { [n |-> n, tc |-> <<"id">>, m |-> m, ac |-> ac] :
      n \in 1..MaxSmallTickets, m \in LongAttCounts, ac \in AttCycles }

\* configured caps: 0 and the README's 10 and the default 200 among them
Caps == {0, 1, 2, 10, 200}

\* ------------------------------------------------------------------------
\* State
\* ------------------------------------------------------------------------
VARIABLES
  scn,            \* the server's initial content (a scenario)
  srvDrops,       \* the server drops a deleted attachment from later listings
  srvMalformed,   \* the server answers listings with bodies that hold no array
  srvDeleted,     \* identifiers of the attachments the server has deleted
  DRY_RUN,        \* configuration
  MAX_DELETES,    \* configuration
  pc,             \* position of run()
  deletedCount,
  ticketPage,
  tickets,        \* the normalized ticket page being iterated
  ti,             \* position of the for-of loop in tickets
  ticketId,
  attachmentPage,
  attachments,    \* the normalized attachment page being iterated
  ai,             \* position of the for-of loop in attachments
  req,            \* the request issued last
  status,         \* the status of the response to req (0: none yet)
  nTicketReqs,    \* ticket-listing requests issued so far
  nAttReqs,       \* attachment-listing requests issued for the current ticket
  nDeletes,       \* DELETE requests issued so far
  nDeletesHere,   \* DELETE requests issued for the current attachment
  ticketSizes,    \* normalized sizes of the ticket pages received
  attSizes,       \* normalized sizes of the current ticket's attachment pages
  capStop,        \* "Reached MAX_DELETES" was logged
  summary,        \* <<>> or <<n>>: the "Done. Processed ..." line with its count
  resp,           \* normalizeArray on its own: the decoded body given to it
  arr,            \* normalizeArray on its own: what it returned
  now,            \* the clock (new Date()), in milliseconds since run() began
  cutoffsSent,    \* the closedOnTo values sent in ticket-listing requests
  deleteTargets,  \* identifiers of the attachments a DELETE was issued for
  nDeleteOk,      \* DELETE requests answered with success so far
  nDryLogs,       \* "[DRY_RUN] Would delete" lines logged so far
  nSkipLogs,      \* "[SKIP] ... missing activityId/updateId" lines logged so far
  nListings       \* listing requests (tickets and attachments) sent so far

vars ==
  << scn, srvDrops, srvMalformed, srvDeleted, DRY_RUN, MAX_DELETES, pc,
     deletedCount, ticketPage, tickets, ti, ticketId, attachmentPage,
     attachments, ai, req, status, nTicketReqs, nAttReqs, nDeletes,
     nDeletesHere, ticketSizes, attSizes, capStop, summary, resp, arr, now,
     cutoffsSent, deleteTargets, nDeleteOk, nDryLogs, nSkipLogs, nListings >>

\* what no step of run() changes
srvVars == << scn, srvDrops, srvMalformed, DRY_RUN, MAX_DELETES, resp, arr, now >>

\* what run() has sent and logged
logVars == << cutoffsSent, deleteTargets, nDeleteOk, nDryLogs, nSkipLogs,
             nListings >>

NoReq == [kind |-> "none", ticket |-> 0, page |-> 0, activity |-> 0, attachment |-> 0]
TicketsReq(page) ==
  [kind |-> "tickets", ticket |-> 0, page |-> page, activity |-> 0, attachment |-> 0]
AttachmentsReq(t, page) ==
  [kind |-> "attachments", ticket |-> t, page |-> page, activity |-> 0, attachment |-> 0]
DeleteReq(act, att) ==
  [kind |-> "delete", ticket |-> 0, page |-> 0, activity |-> act, attachment |-> att]

\* ------------------------------------------------------------------------
\* The server
\* ------------------------------------------------------------------------
srvTickets == [i \in 1..scn.n |-> TicketOf(Cyc(scn.tc, i), i)]

srvInitialAtts(t) == [j \in 1..scn.m |-> AttOf(Cyc(scn.ac, t + j), t, j)]

\* the attachment listing of ticket t as the server holds it now
srvAtts(t) ==
  LET Kept(a) == Coalesce(a.id, a.attachmentId) = Nullish
                 \/ Coalesce(a.id, a.attachmentId)[1] \notin srvDeleted
  IN  IF t \in 1..scn.n THEN SelectSeq(srvInitialAtts(t), Kept) ELSE <<>>

Min(a, b) == IF a < b THEN a ELSE b

\* page number `page` (from 1) of a listing cut in pages of perPage records
PageOf(list, page, perPage) ==
  SubSeq(list, (page - 1) * perPage + 1, Min(page * perPage, Len(list)))

\* the bodies the server may wrap a page in
Envelopes(page) ==
  IF srvMalformed
    THEN { JNull, JScalar, JObject(JAbsent, JAbsent), JObject(JScalar, JArray(page)) }
    ELSE { JArray(page), JObject(JArray(page), JAbsent),
           JObject(JAbsent, JArray(page)), JObject(JNull, JArray(page)) }

\* ------------------------------------------------------------------------
\* run(): decisions
\* ------------------------------------------------------------------------
\* DAYS: the retention window; its default
DAYS == 14

\* milliseconds of a day: setUTCDate moves a Date by whole days
msPerDay == 86400000

\* isoDaysAgo(days): the clock read now, moved back by days
isoDaysAgo(days) == now - days * msPerDay

\* mutant: the attachment's own id stands in for a missing activity id
getActivityIdFromAttachment_ownId(a) ==
  Coalesce(a.activityId, Coalesce(a.updateId, Coalesce(a.activityID,
    Coalesce(a.updateID, a.id))))

getActivityIdFromAttachment(a) ==
  Coalesce(a.activityId, Coalesce(a.updateId, Coalesce(a.activityID, a.updateID)))

\* const ticketId = t.id ?? t.ticketId
ticketIdOf(t) == Coalesce(t.id, t.ticketId)

\* mutant: only a.attachmentId is read
attachmentIdOf_alt(a) == a.attachmentId

\* const attachmentId = a.id ?? a.attachmentId
attachmentIdOf(a) == Coalesce(a.id, a.attachmentId)

\* mutant: the cap is compared with > instead of >=
capReached_late(count, max) == count > max

\* if (deletedCount >= MAX_DELETES)
capReached(count, max) == count >= max

\* mutant: the short-page test is missing: only an empty page ends a walk
shortPage_never(len, perPage) == FALSE

\* mutant: a full page is taken for the last one
shortPage_full(len, perPage) == len <= perPage

\* if (tickets.length < ticketsPerPage) break;  and the same for attachments
shortPage(len, perPage) == len < perPage

\* mutant: the DRY_RUN test is dropped
deletes_always(dry) == TRUE

\* if (DRY_RUN) log only, else DELETE
deletes(dry) == ~dry

\* ------------------------------------------------------------------------
\* Initial state: configuration read, run() entered, nothing requested yet
\* ------------------------------------------------------------------------
Init ==
  /\ scn \in Scenarios
  /\ DRY_RUN \in BOOLEAN
  /\ srvDrops \in BOOLEAN
  /\ srvMalformed \in BOOLEAN
  /\ srvDeleted = {}
  /\ DRY_RUN => ~srvDrops       \* nothing is deleted: dropping cannot show
  /\ MAX_DELETES \in Caps
  /\ pc = "listTickets"
  /\ deletedCount = 0
  /\ ticketPage = 1
  /\ tickets = <<>>
  /\ ti = 0
  /\ ticketId = Nullish
  /\ attachmentPage = 0
  /\ attachments = <<>>
  /\ ai = 0
  /\ req = NoReq
  /\ status = 0
  /\ nTicketReqs = 0
  /\ nAttReqs = 0
  /\ nDeletes = 0
  /\ nDeletesHere = 0
  /\ ticketSizes = <<>>
  /\ attSizes = <<>>
  /\ capStop = FALSE
  /\ summary = <<>>
  /\ resp = JNull
  /\ arr = <<>>
  /\ now = 0
  /\ cutoffsSent = {}
  /\ deleteTargets = {}
  /\ nDeleteOk = 0
  /\ nDryLogs = 0
  /\ nSkipLogs = 0
  /\ nListings = 0

\* ------------------------------------------------------------------------
\* run(): the ticket walk
\* ------------------------------------------------------------------------
\* await listClosedTicketsOlderThan(DAYS, ticketPage, ticketsPerPage): request
ListTicketsSend ==
  /\ pc = "listTickets"
  /\ req' = TicketsReq(ticketPage)
  /\ cutoffsSent' = cutoffsSent \cup {isoDaysAgo(DAYS)}
  /\ nListings' = nListings + 1
  /\ nTicketReqs' = nTicketReqs + 1
  /\ status' = 0
  /\ pc' = "awaitTickets"
  /\ UNCHANGED << srvVars, deleteTargets, nDeleteOk, nDryLogs, nSkipLogs,
                  srvDeleted, deletedCount, ticketPage, tickets, ti,
                  ticketId, attachmentPage, attachments, ai, nAttReqs,
                  nDeletes, nDeletesHere, ticketSizes, attSizes, capStop, summary >>

\* the response is not ok: bdFetch throws, run() rejects, the process exits 1
ListTicketsFail ==
  /\ pc = "awaitTickets"
  /\ \E st \in Statuses :
       /\ ~resOk(st)
       /\ status' = st
  /\ pc' = "failed"
  /\ UNCHANGED << srvVars, logVars,
                  srvDeleted, deletedCount, ticketPage, tickets, ti,
                  ticketId, attachmentPage, attachments, ai, req, nTicketReqs,
                  nAttReqs, nDeletes, nDeletesHere, ticketSizes, attSizes,
                  capStop, summary >>

\* the response is ok: normalize; an empty page ends the run with the summary
ListTicketsRecv ==
  /\ pc = "awaitTickets"
  /\ \E st \in Statuses, body \in Envelopes(PageOf(srvTickets, req.page, ticketsPerPage)) :
       /\ resOk(st)
       /\ status' = st
       /\ tickets' = normalizeArray(body)
  /\ ticketSizes' = Append(ticketSizes, Len(tickets'))
  /\ IF Len(tickets') = 0
       THEN /\ pc' = "done"
            /\ summary' = <<deletedCount>>
            /\ ti' = ti
       ELSE /\ pc' = "ticket"
            /\ ti' = 1
            /\ summary' = summary
  /\ UNCHANGED << srvVars, logVars,
                  srvDeleted, deletedCount, ticketPage, ticketId,
                  attachmentPage, attachments, ai, req, nTicketReqs, nAttReqs,
                  nDeletes, nDeletesHere, attSizes, capStop >>

\* mutant: a ticket without identifier makes run() throw
TicketSkip_throws ==
  /\ pc = "ticket"
  /\ ti <= Len(tickets)
  /\ Falsy(Coalesce(tickets[ti].id, tickets[ti].ticketId))
  /\ pc' = "failed"
  /\ UNCHANGED << srvVars, logVars,
                  srvDeleted, deletedCount, ticketPage, tickets, ti,
                  ticketId, attachmentPage, attachments, ai, req, status,
                  nTicketReqs, nAttReqs, nDeletes, nDeletesHere, ticketSizes,
                  attSizes, capStop, summary >>

\* for (const t of tickets): a ticket without identifier is skipped
TicketSkip ==
  /\ pc = "ticket"
  /\ ti <= Len(tickets)
  /\ Falsy(ticketIdOf(tickets[ti]))
  /\ ti' = ti + 1
  /\ UNCHANGED << srvVars, logVars,
                  srvDeleted, pc, deletedCount, ticketPage, tickets,
                  ticketId, attachmentPage, attachments, ai, req, status,
                  nTicketReqs, nAttReqs, nDeletes, nDeletesHere, ticketSizes,
                  attSizes, capStop, summary >>

\* mutant: the attachment page number is not reset for the next ticket
TicketEnter_keepPage ==
  /\ pc = "ticket"
  /\ ti <= Len(tickets)
  /\ ~Falsy(ticketIdOf(tickets[ti]))
  /\ ticketId' = ticketIdOf(tickets[ti])
  /\ nAttReqs' = 0
  /\ attSizes' = <<>>
  /\ pc' = "listAttachments"
  /\ UNCHANGED << srvVars, logVars,
                  srvDeleted, deletedCount, ticketPage, tickets, ti,
                  attachmentPage, attachments, ai, req, status, nTicketReqs,
                  nDeletes, nDeletesHere, ticketSizes, capStop, summary >>

\* a ticket with identifier: its attachment walk starts at page 1
TicketEnter ==
  /\ pc = "ticket"
  /\ ti <= Len(tickets)
  /\ ~Falsy(ticketIdOf(tickets[ti]))
  /\ ticketId' = ticketIdOf(tickets[ti])
  /\ attachmentPage' = 1
  /\ nAttReqs' = 0
  /\ attSizes' = <<>>
  /\ pc' = "listAttachments"
  /\ UNCHANGED << srvVars, logVars,
                  srvDeleted, deletedCount, ticketPage, tickets, ti,
                  attachments, ai, req, status, nTicketReqs, nDeletes,
                  nDeletesHere, ticketSizes, capStop, summary >>

\* mutant: after a full page the same ticket page is asked again
TicketsEnd_samePage ==
  /\ pc = "ticket"
  /\ ti > Len(tickets)
  /\ IF shortPage(Len(tickets), ticketsPerPage)
       THEN /\ pc' = "done"
            /\ summary' = <<deletedCount>>
       ELSE /\ pc' = "listTickets"
            /\ summary' = summary
  /\ UNCHANGED << srvVars, logVars,
                  srvDeleted, deletedCount, tickets, ti, ticketId, ticketPage,
                  attachmentPage, attachments, ai, req, status, nTicketReqs,
                  nAttReqs, nDeletes, nDeletesHere, ticketSizes, attSizes,
                  capStop >>

\* the page is exhausted: a short page ends the run, a full one asks the next
TicketsEnd ==
  /\ pc = "ticket"
  /\ ti > Len(tickets)
  /\ IF shortPage(Len(tickets), ticketsPerPage)
       THEN /\ pc' = "done"
            /\ summary' = <<deletedCount>>
            /\ ticketPage' = ticketPage
       ELSE /\ pc' = "listTickets"
            /\ ticketPage' = ticketPage + 1
            /\ summary' = summary
  /\ UNCHANGED << srvVars, logVars,
                  srvDeleted, deletedCount, tickets, ti, ticketId,
                  attachmentPage, attachments, ai, req, status, nTicketReqs,
                  nAttReqs, nDeletes, nDeletesHere, ticketSizes, attSizes,
                  capStop >>

\* ------------------------------------------------------------------------
\* run(): the attachment walk of one ticket
\* ------------------------------------------------------------------------
\* await listTicketAttachments(ticketId, attachmentPage, attachmentsPerPage)
ListAttachmentsSend ==
  /\ pc = "listAttachments"
  /\ req' = AttachmentsReq(ticketId[1], attachmentPage)
  /\ nAttReqs' = nAttReqs + 1
  /\ nListings' = nListings + 1
  /\ status' = 0
  /\ pc' = "awaitAttachments"
  /\ UNCHANGED << srvVars, cutoffsSent, deleteTargets, nDeleteOk, nDryLogs,
                  nSkipLogs,
                  srvDeleted, deletedCount, ticketPage, tickets, ti,
                  ticketId, attachmentPage, attachments, ai,
                  nTicketReqs, nDeletes, nDeletesHere, ticketSizes, attSizes,
                  capStop, summary >>

\* mutant: a failed attachment listing is taken for an empty one
ListAttachmentsFail_swallowed ==
  /\ pc = "awaitAttachments"
  /\ \E st \in Statuses :
       /\ ~resOk(st)
       /\ status' = st
  /\ pc' = "ticket"
  /\ ti' = ti + 1
  /\ UNCHANGED << srvVars, logVars,
                  srvDeleted, deletedCount, ticketPage, tickets,
                  ticketId, attachmentPage, attachments, ai, req, nTicketReqs,
                  nAttReqs, nDeletes, nDeletesHere, ticketSizes, attSizes,
                  capStop, summary >>

ListAttachmentsFail ==
  /\ pc = "awaitAttachments"
  /\ \E st \in Statuses :
       /\ ~resOk(st)
       /\ status' = st
  /\ pc' = "failed"
  /\ UNCHANGED << srvVars, logVars,
                  srvDeleted, deletedCount, ticketPage, tickets, ti,
                  ticketId, attachmentPage, attachments, ai, req, nTicketReqs,
                  nAttReqs, nDeletes, nDeletesHere, ticketSizes, attSizes,
                  capStop, summary >>

\* normalize; an empty page ends this ticket's walk (break), on to the next ticket
ListAttachmentsRecv ==
  /\ pc = "awaitAttachments"
  /\ \E st \in Statuses,
        body \in Envelopes(PageOf(srvAtts(req.ticket), req.page, attachmentsPerPage)) :
       /\ resOk(st)
       /\ status' = st
       /\ attachments' = normalizeArray(body)
  /\ nDeletesHere' = 0
  /\ attSizes' = Append(attSizes, Len(attachments'))
  /\ IF Len(attachments') = 0
       THEN /\ pc' = "ticket"
            /\ ti' = ti + 1
            /\ ai' = ai
       ELSE /\ pc' = "attachment"
            /\ ai' = 1
            /\ ti' = ti
  /\ UNCHANGED << srvVars, logVars,
                  srvDeleted, deletedCount, ticketPage, tickets,
                  ticketId, attachmentPage, req, nTicketReqs, nAttReqs,
                  nDeletes, ticketSizes, capStop, summary >>

\* if (!attachmentId) continue;
AttachmentSkipNoId ==
  /\ pc = "attachment"
  /\ ai <= Len(attachments)
  /\ Falsy(attachmentIdOf(attachments[ai]))
  /\ ai' = ai + 1
  /\ nDeletesHere' = 0
  /\ UNCHANGED << srvVars, logVars,
                  srvDeleted, pc, deletedCount, ticketPage, tickets,
                  ti, ticketId, attachmentPage, attachments, req, status,
                  nTicketReqs, nAttReqs, nDeletes, ticketSizes, attSizes,
                  capStop, summary >>

\* if (!activityId) { log [SKIP]; continue; }
AttachmentSkipNoActivity ==
  /\ pc = "attachment"
  /\ ai <= Len(attachments)
  /\ ~Falsy(attachmentIdOf(attachments[ai]))
  /\ Falsy(getActivityIdFromAttachment(attachments[ai]))
  /\ nSkipLogs' = nSkipLogs + 1
  /\ ai' = ai + 1
  /\ nDeletesHere' = 0
  /\ UNCHANGED << srvVars, cutoffsSent, deleteTargets, nDeleteOk, nDryLogs,
                  nListings,
                  srvDeleted, pc, deletedCount, ticketPage, tickets,
                  ti, ticketId, attachmentPage, attachments, req, status,
                  nTicketReqs, nAttReqs, nDeletes, ticketSizes, attSizes,
                  capStop, summary >>

\* mutant: one handled attachment counts twice
Counted_double ==
  /\ deletedCount' = deletedCount + 2
  /\ IF capReached(deletedCount', MAX_DELETES)
       THEN /\ capStop' = TRUE
            /\ summary' = <<deletedCount'>>
            /\ pc' = "done"
            /\ ai' = ai
            /\ nDeletesHere' = nDeletesHere
       ELSE /\ pc' = "attachment"
            /\ ai' = ai + 1
            /\ nDeletesHere' = 0
            /\ UNCHANGED << capStop, summary >>

\* deletedCount += 1; if (deletedCount >= MAX_DELETES) { log; log summary; return; }
Counted ==
  /\ deletedCount' = deletedCount + 1
  /\ IF capReached(deletedCount', MAX_DELETES)
       THEN /\ capStop' = TRUE
            /\ summary' = <<deletedCount'>>
            /\ pc' = "done"
            /\ ai' = ai
            /\ nDeletesHere' = nDeletesHere
       ELSE /\ pc' = "attachment"
            /\ ai' = ai + 1
            /\ nDeletesHere' = 0
            /\ UNCHANGED << capStop, summary >>

\* mutant: a dry run counts but never stops at the cap
AttachmentDryRun_uncapped ==
  /\ pc = "attachment"
  /\ ai <= Len(attachments)
  /\ ~Falsy(attachmentIdOf(attachments[ai]))
  /\ ~Falsy(getActivityIdFromAttachment(attachments[ai]))
  /\ ~deletes(DRY_RUN)
  /\ nDryLogs' = nDryLogs + 1
  /\ deletedCount' = deletedCount + 1
  /\ ai' = ai + 1
  /\ nDeletesHere' = 0
  /\ UNCHANGED << srvVars, cutoffsSent, deleteTargets, nDeleteOk, nSkipLogs,
                  nListings, pc, capStop, summary,
                  srvDeleted, ticketPage, tickets, ti, ticketId,
                  attachmentPage, attachments, req, status, nTicketReqs,
                  nAttReqs, nDeletes, ticketSizes, attSizes >>

\* mutant: the dry-run branch does not ask for an activity identifier
AttachmentDryRun_anyActivity ==
  /\ pc = "attachment"
  /\ ai <= Len(attachments)
  /\ ~Falsy(attachmentIdOf(attachments[ai]))
  /\ ~deletes(DRY_RUN)
  /\ nDryLogs' = nDryLogs + 1
  /\ Counted
  /\ UNCHANGED << srvVars, cutoffsSent, deleteTargets, nDeleteOk, nSkipLogs,
                  nListings,
                  srvDeleted, ticketPage, tickets, ti, ticketId,
                  attachmentPage, attachments, req, status, nTicketReqs,
                  nAttReqs, nDeletes, ticketSizes, attSizes >>

\* if (DRY_RUN) { log [DRY_RUN] Would delete ... } then count
AttachmentDryRun ==
  /\ pc = "attachment"
  /\ ai <= Len(attachments)
  /\ ~Falsy(attachmentIdOf(attachments[ai]))
  /\ ~Falsy(getActivityIdFromAttachment(attachments[ai]))
  /\ ~deletes(DRY_RUN)
  /\ nDryLogs' = nDryLogs + 1
  /\ Counted
  /\ UNCHANGED << srvVars, cutoffsSent, deleteTargets, nDeleteOk, nSkipLogs,
                  nListings,
                  srvDeleted, ticketPage, tickets, ti, ticketId,
                  attachmentPage, attachments, req, status, nTicketReqs,
                  nAttReqs, nDeletes, ticketSizes, attSizes >>

\* else await deleteActivityAttachment(activityId, attachmentId): request
DeleteSend ==
  /\ pc = "attachment"
  /\ ai <= Len(attachments)
  /\ ~Falsy(attachmentIdOf(attachments[ai]))
  /\ ~Falsy(getActivityIdFromAttachment(attachments[ai]))
  /\ deletes(DRY_RUN)
  /\ req' = DeleteReq(getActivityIdFromAttachment(attachments[ai])[1],
                      attachmentIdOf(attachments[ai])[1])
  /\ deleteTargets' = deleteTargets \cup {attachmentIdOf(attachments[ai])[1]}
  /\ nDeletes' = nDeletes + 1
  /\ nDeletesHere' = nDeletesHere + 1
  /\ status' = 0
  /\ pc' = "awaitDelete"
  /\ UNCHANGED << srvVars, cutoffsSent, nDeleteOk, nDryLogs, nSkipLogs,
                  nListings,
                  srvDeleted, deletedCount, ticketPage, tickets, ti,
                  ticketId, attachmentPage, attachments, ai,
                  nTicketReqs, nAttReqs, ticketSizes, attSizes, capStop,
                  summary >>

\* the DELETE is not ok (404 included): bdFetch throws, nothing catches it
\* before run().catch, the process exits 1
DeleteFail ==
  /\ pc = "awaitDelete"
  /\ \E st \in Statuses :
       /\ ~resOk(st)
       /\ status' = st
  /\ pc' = "failed"
  /\ UNCHANGED << srvVars, logVars,
                  srvDeleted, deletedCount, ticketPage, tickets, ti,
                  ticketId, attachmentPage, attachments, ai, req, nTicketReqs,
                  nAttReqs, nDeletes, nDeletesHere, ticketSizes, attSizes,
                  capStop, summary >>

\* the DELETE is ok: log "Deleted ...", then count
DeleteRecv ==
  /\ pc = "awaitDelete"
  /\ \E st \in Statuses :
       /\ resOk(st)
       /\ status' = st
  /\ srvDeleted' = IF srvDrops THEN srvDeleted \cup {req.attachment} ELSE srvDeleted
  /\ nDeleteOk' = nDeleteOk + 1
  /\ Counted
  /\ UNCHANGED << srvVars, cutoffsSent, deleteTargets, nDryLogs, nSkipLogs,
                  nListings,
                  ticketPage, tickets, ti, ticketId, attachmentPage,
                  attachments, req, nTicketReqs, nAttReqs, nDeletes,
                  ticketSizes, attSizes >>

\* mutant: after a full page the same attachment page is asked again
AttachmentsEnd_samePage ==
  /\ pc = "attachment"
  /\ ai > Len(attachments)
  /\ IF shortPage(Len(attachments), attachmentsPerPage)
       THEN /\ pc' = "ticket"
            /\ ti' = ti + 1
       ELSE /\ pc' = "listAttachments"
            /\ ti' = ti
  /\ UNCHANGED << srvVars, logVars,
                  srvDeleted, deletedCount, tickets, ticketPage, attachmentPage,
                  ticketId, attachments, ai, req, status, nTicketReqs,
                  nAttReqs, nDeletes, nDeletesHere, ticketSizes, attSizes,
                  capStop, summary >>

\* the page is exhausted: a short page ends the walk, a full one asks the next
AttachmentsEnd ==
  /\ pc = "attachment"
  /\ ai > Len(attachments)
  /\ IF shortPage(Len(attachments), attachmentsPerPage)
       THEN /\ pc' = "ticket"
            /\ ti' = ti + 1
            /\ attachmentPage' = attachmentPage
       ELSE /\ pc' = "listAttachments"
            /\ attachmentPage' = attachmentPage + 1
            /\ ti' = ti
  /\ UNCHANGED << srvVars, logVars,
                  srvDeleted, deletedCount, tickets, ticketPage,
                  ticketId, attachments, ai, req, status, nTicketReqs,
                  nAttReqs, nDeletes, nDeletesHere, ticketSizes, attSizes,
                  capStop, summary >>

Next ==
  \/ ListTicketsSend
  \/ ListTicketsFail
  \/ ListTicketsRecv
  \/ TicketSkip
  \/ TicketEnter
  \/ TicketsEnd
  \/ ListAttachmentsSend
  \/ ListAttachmentsFail
  \/ ListAttachmentsRecv
  \/ AttachmentSkipNoId
  \/ AttachmentSkipNoActivity
  \/ AttachmentDryRun
  \/ DeleteSend
  \/ DeleteFail
  \/ DeleteRecv
  \/ AttachmentsEnd

Spec == Init /\ [][Next]_vars

\* run() keeps running: the event loop resumes it after every await, and every
\* request returns
SpecFair == Init /\ [][Next]_vars /\ WF_vars(Next)

\* ------------------------------------------------------------------------
\* run() under a clock that advances while it runs
\* ------------------------------------------------------------------------
\* time passes: at any point of a run that has not ended
Tick ==
  /\ pc \notin {"done", "failed", "normalize", "normalized"}
  /\ now < MaxClock
  /\ now' = now + 1
  /\ UNCHANGED << scn, srvDrops, srvMalformed, srvDeleted, DRY_RUN, MAX_DELETES,
                  pc, deletedCount, ticketPage, tickets, ti, ticketId,
                  attachmentPage, attachments, ai, req, status, nTicketReqs,
                  nAttReqs, nDeletes, nDeletesHere, ticketSizes, attSizes,
                  capStop, summary, resp, arr, logVars >>

\* small listings, and ticket listings of several pages without identifiers
InitClock ==
  /\ Init
  /\ \/ (scn.n <= MaxSmallTickets /\ scn.m <= MaxSmallAtts)
     \/ (scn.tc = <<"none">> /\ scn.m = 0)

NextClock == Next \/ Tick

SpecClock == InitClock /\ [][NextClock]_vars

\* ------------------------------------------------------------------------
\* normalizeArray on its own: applied once to a body drawn from Bodies
\* ------------------------------------------------------------------------
Arrays ==
  UNION { [1..k -> {TicketWithId(1), TicketWithoutId}] : k \in 0..MaxSmallTickets }

\* what a field of an object body may hold
FieldValues ==
  {JAbsent, JNull, JScalar, JObject(JAbsent, JAbsent)} \cup { JArray(a) : a \in Arrays }

Bodies ==
  {JNull, JScalar}
  \cup { JArray(a) : a \in Arrays }
  \cup { JObject(d, r) : d \in FieldValues, r \in FieldValues }

InitNormalize ==
  /\ resp \in Bodies
  /\ arr = <<>>
  /\ pc = "normalize"
  /\ scn = [n |-> 0, tc |-> <<"id">>, m |-> 0, ac |-> <<"full">>]
  /\ DRY_RUN = TRUE
  /\ srvDrops = FALSE
  /\ srvMalformed = FALSE
  /\ srvDeleted = {}
  /\ MAX_DELETES = 200
  /\ deletedCount = 0
  /\ ticketPage = 1
  /\ tickets = <<>>
  /\ ti = 0
  /\ ticketId = Nullish
  /\ attachmentPage = 0
  /\ attachments = <<>>
  /\ ai = 0
  /\ req = NoReq
  /\ status = 0
  /\ nTicketReqs = 0
  /\ nAttReqs = 0
  /\ nDeletes = 0
  /\ nDeletesHere = 0
  /\ ticketSizes = <<>>
  /\ attSizes = <<>>
  /\ capStop = FALSE
  /\ summary = <<>>
  /\ now = 0
  /\ cutoffsSent = {}
  /\ deleteTargets = {}
  /\ nDeleteOk = 0
  /\ nDryLogs = 0
  /\ nSkipLogs = 0
  /\ nListings = 0

Normalize ==
  /\ pc = "normalize"
  /\ arr' = normalizeArray(resp)
  /\ pc' = "normalized"
  /\ UNCHANGED << scn, srvDrops, srvMalformed, srvDeleted, DRY_RUN, MAX_DELETES,
                  deletedCount, ticketPage, tickets, ti, ticketId,
                  attachmentPage, attachments, ai, req, status, nTicketReqs,
                  nAttReqs, nDeletes, nDeletesHere, ticketSizes, attSizes,
                  capStop, summary, resp, now, logVars >>

NextNormalize == Normalize

SpecNormalize == InitNormalize /\ [][NextNormalize]_vars

\* ------------------------------------------------------------------------
\* Properties
\* ------------------------------------------------------------------------
TypeOK ==
  /\ pc \in {"listTickets", "awaitTickets", "ticket", "listAttachments",
             "awaitAttachments", "attachment", "awaitDelete", "done", "failed",
             "normalize", "normalized"}
  /\ deletedCount \in Nat
  /\ ticketPage \in Nat
  /\ status \in Statuses \cup {0}

\* C1: with dry-run enabled no DELETE request is ever issued, whatever the
\* listings hold and whatever the cap is.
C1_DryRunNeverDeletes ==
  DRY_RUN => (nDeletes = 0 /\ req.kind # "delete" /\ pc # "awaitDelete" /\ srvDeleted = {})

\* C1 witness: a dry run has processed two attachments and ended.
C1_Witness ==
  DRY_RUN /\ pc = "done" /\ deletedCount >= 2 /\ scn.m > 0

\* C2 (as claimed): the counter never exceeds the configured maximum, for
\* every configured maximum.
C2_CounterWithinCap ==
  deletedCount <= MAX_DELETES

\* C3: as soon as the counter reaches the maximum after an attachment was
\* processed, run() has logged the cap, emitted the summary with the count
\* and ended; from then on no step is taken, so no request of any kind
\* follows, whatever is left of the page, of the ticket's pages or of the
\* tickets.
C3_CapStopsRun ==
  /\ [](/\ (deletedCount > 0 /\ deletedCount >= MAX_DELETES)
             => (pc = "done" /\ capStop /\ summary = <<deletedCount>>)
        /\ capStop => (pc = "done" /\ deletedCount >= MAX_DELETES))
  /\ [][pc = "done" => UNCHANGED << req, nTicketReqs, nAttReqs, nDeletes >>]_vars

\* C3 witness: the cap ended the run inside a full attachment page of a
\* ticket that is not the last of its page.
C3_Witness ==
  /\ capStop
  /\ pc = "done"
  /\ ai < Len(attachments)
  /\ Len(attachments) = attachmentsPerPage
  /\ ti < Len(tickets)

\* C4: once page n of a walk came back with a size that is neither zero nor
\* the page size, n requests were issued for that walk, for the pages 1..n
\* in order, and no request for page n + 1 ever follows.  (Both walks.)
C4_ShortPageEndsWalk ==
  /\ \A n \in DOMAIN ticketSizes :
       (ticketSizes[n] > 0 /\ ticketSizes[n] < ticketsPerPage)
         => (n = Len(ticketSizes) /\ nTicketReqs = n /\ ticketPage = n)
  /\ \A n \in DOMAIN attSizes :
       (attSizes[n] > 0 /\ attSizes[n] < attachmentsPerPage)
         => (n = Len(attSizes) /\ nAttReqs = n /\ attachmentPage = n)
  /\ pc = "awaitTickets" => req = TicketsReq(nTicketReqs)
  /\ pc = "awaitAttachments" => req = AttachmentsReq(ticketId[1], nAttReqs)

\* C4 witness: ticket pages of 100, 100 and 37 records, three requests, done.
C4_Witness ==
  /\ ticketSizes = <<100, 100, 37>>
  /\ nTicketReqs = 3
  /\ pc = "done"
  /\ ~capStop

\* C5: a full page is always followed by the request of the next page, and
\* the empty page that comes back after k full pages is the (k+1)-th and
\* last request of the walk: a run that ends without the cap never ends on
\* a full ticket page, and a ticket is left only after a page of fewer than
\* 50 attachments.
C5_EmptyPageEndsWalk ==
  /\ \A n \in DOMAIN ticketSizes :
       /\ ticketSizes[n] = 0
            => (n = Len(ticketSizes) /\ nTicketReqs = n /\ pc = "done"
                /\ summary = <<deletedCount>>)
       /\ n < Len(ticketSizes) => ticketSizes[n] = ticketsPerPage
  /\ \A n \in DOMAIN attSizes :
       /\ attSizes[n] = 0 => (n = Len(attSizes) /\ nAttReqs = n)
       /\ n < Len(attSizes) => attSizes[n] = attachmentsPerPage
  /\ (pc = "done" /\ ~capStop)
       => (ticketSizes # <<>> /\ ticketSizes[Len(ticketSizes)] < ticketsPerPage)
  /\ (pc = "ticket" /\ attSizes # <<>>)
       => attSizes[Len(attSizes)] < attachmentsPerPage

\* C5 witness: ticket pages of 100, 100, 100 and 0 records, four requests.
C5_Witness ==
  /\ ticketSizes = <<100, 100, 100, 0>>
  /\ nTicketReqs = 4
  /\ pc = "done"

C7_DeleteFailurePropagates ==
  /\ []((req.kind = "delete" /\ status >= 300 /\ status # 404)
          => (pc = "failed" /\ nDeletesHere = 1 /\ deletedCount = nDeletes - 1
              /\ summary = <<>>))
  /\ [][pc # "failed"]_vars

\* C7 witness: a DELETE was answered 401 after an earlier one succeeded.
C7_Witness ==
  /\ req.kind = "delete"
  /\ status = 401
  /\ pc = "failed"
  /\ nDeletes = 2

NoTicketId(t) == t.id = Nullish /\ t.ticketId = Nullish
NoAttachmentId(a) == a.id = Nullish /\ a.attachmentId = Nullish

\* C8: the step taken at a ticket record without id and ticketId, and at an
\* attachment record without id and attachmentId, only moves on to the next
\* record of the same page: counter, requests and run state are untouched.
C8_MissingIdSkipped ==
  [][ /\ (pc = "ticket" /\ ti <= Len(tickets) /\ NoTicketId(tickets[ti]))
           => /\ pc' = "ticket"
              /\ ti' = ti + 1
              /\ UNCHANGED << tickets, ticketPage, deletedCount, req, nTicketReqs,
                              nAttReqs, nDeletes, capStop, summary >>
      /\ (pc = "attachment" /\ ai <= Len(attachments) /\ NoAttachmentId(attachments[ai]))
           => /\ pc' = "attachment"
              /\ ai' = ai + 1
              /\ UNCHANGED << attachments, attachmentPage, ti, tickets, deletedCount,
                              req, nTicketReqs, nAttReqs, nDeletes, capStop, summary >>
    ]_vars

\* C8 witness: the ticket before the current one and the attachment before
\* the current one had no identifier, and the current attachment is being
\* deleted.
C8_Witness ==
  /\ pc = "awaitDelete"
  /\ ti = 2
  /\ NoTicketId(tickets[1])
  /\ ai = 2
  /\ NoAttachmentId(attachments[1])
  /\ deletedCount = 0

ItemsOrEmpty(v) == IF v.t = "array" THEN v.items ELSE <<>>

\* C9 (as claimed): the value of data is used whenever the body has a data
\* field, else the value of result whenever it has a result field, else the
\* body; a resolved value that is no array gives the empty sequence.
C9_FieldPresencePrecedence ==
  pc = "normalized"
    => arr = (IF resp.t = "object" /\ resp.data.t # "absent"
                THEN ItemsOrEmpty(resp.data)
                ELSE IF resp.t = "object" /\ resp.result.t # "absent"
                  THEN ItemsOrEmpty(resp.result)
                  ELSE ItemsOrEmpty(resp))

\* C9 (amended): as claimed, but a data or result field that holds null
\* counts as absent: the lookup falls through to the next of data, result,
\* body.
C9_NonNullPrecedence ==
  pc = "normalized"
    => arr = (IF resp.t = "object" /\ resp.data.t \notin {"absent", "null"}
                THEN ItemsOrEmpty(resp.data)
                ELSE IF resp.t = "object" /\ resp.result.t \notin {"absent", "null"}
                  THEN ItemsOrEmpty(resp.result)
                  ELSE ItemsOrEmpty(resp))

\* C9 witness: a body with an array under data and another under result was
\* normalized to the one under data.
C9_Witness ==
  /\ pc = "normalized"
  /\ resp.t = "object"
  /\ resp.data.t = "array"
  /\ resp.result.t = "array"
  /\ resp.data # resp.result
  /\ arr = resp.data.items
  /\ arr # <<>>

\* one ticket with identifier and two attachments with identifier and
\* activity identifier, a real run, the cap at 10, well-formed listings
C10_Given ==
  /\ scn.n = 1
  /\ Cyc(scn.tc, 1) \in {"id", "ticketId"}
  /\ scn.m = 2
  /\ \A j \in 1..2 : Cyc(scn.ac, 1 + j) \in {"full", "update"}
  /\ ~DRY_RUN
  /\ MAX_DELETES = 10
  /\ ~srvMalformed

\* C10: given one ticket with two attachments, dry-run off and cap 10, the
\* run never issues more than 2 DELETE requests, fails only on a request
\* that was answered with a failure, and ends with 2 DELETE requests issued
\* and a summary that reports 2.
C10_EndToEnd ==
  C10_Given
    => /\ nDeletes <= 2
       /\ pc = "failed" => status >= 300
       /\ pc = "done"
            => (nDeletes = 2 /\ deletedCount = 2 /\ summary = <<2>> /\ ~capStop
                /\ nTicketReqs = 1 /\ nAttReqs = 1)

\* C10 witness: that run has ended.
C10_Witness ==
  C10_Given /\ pc = "done" /\ nDeletes = 2

\* the ticket at position t of the listing has an identifier
TicketHasId(t) == Cyc(scn.tc, t) \in {"id", "ticketId"}

\* attachment j of ticket t, as listed at the start, has an identifier and
\* an activity identifier
Deletable(t, j) == TicketHasId(t) /\ Cyc(scn.ac, t + j) \in {"full", "update"}

\* C11 (as claimed): a real run that ends without the cap and without a
\* failure, against a server that drops deleted attachments from later
\* pages, has issued a DELETE for every attachment with identifier and
\* activity identifier of every listed ticket.
C11_AllDeleted ==
  (pc = "done" /\ ~capStop /\ ~DRY_RUN /\ srvDrops /\ ~srvMalformed)
    => \A t \in 1..scn.n : \A j \in 1..scn.m :
         Deletable(t, j) => AttId(t, j) \in deleteTargets

\* C12: a request answered with a non-success status ends run() in the
\* failure state at once: no summary, no cap notice, the request is not
\* repeated (requests issued = responses received + the failed one), a
\* failed DELETE is not counted, and no step follows the failure.
C12_AbortOnError ==
  /\ [](/\ status >= 300 => pc = "failed"
        /\ pc = "failed"
             => /\ status >= 300
                /\ summary = <<>>
                /\ ~capStop
                /\ deletedCount = nDeleteOk + nDryLogs
                /\ req.kind = "tickets" => nTicketReqs = Len(ticketSizes) + 1
                /\ req.kind = "attachments" => nAttReqs = Len(attSizes) + 1
                /\ req.kind = "delete" => nDeletes = nDeleteOk + 1)
  /\ [][pc = "failed" => UNCHANGED vars]_vars

\* C12 witness: the attachment listing of a second ticket failed after an
\* attachment of the first one was processed.
C12_Witness ==
  /\ pc = "failed"
  /\ req.kind = "attachments"
  /\ status = 500
  /\ ti = 2
  /\ deletedCount >= 1

NoActivityId(a) ==
  /\ a.activityId = Nullish
  /\ a.updateId = Nullish
  /\ a.activityID = Nullish
  /\ a.updateID = Nullish

HasAttachmentId(a) ==
  \/ a.id \notin {Nullish, Val(0)}
  \/ (a.id = Nullish /\ a.attachmentId \notin {Nullish, Val(0)})

\* C13: in a real run the step taken at an attachment that has an
\* identifier but none of activityId, updateId, activityID, updateID logs
\* the [SKIP] notice and moves on to the next attachment of the page: no
\* DELETE, counter unchanged, run not aborted.
C13_MissingActivitySkipped ==
  [][ (/\ ~DRY_RUN
       /\ pc = "attachment"
       /\ ai <= Len(attachments)
       /\ HasAttachmentId(attachments[ai])
       /\ NoActivityId(attachments[ai]))
        => /\ pc' = "attachment"
           /\ ai' = ai + 1
           /\ nSkipLogs' = nSkipLogs + 1
           /\ UNCHANGED << attachments, attachmentPage, ti, tickets, deletedCount,
                           req, nTicketReqs, nAttReqs, nDeletes, deleteTargets,
                           nDeleteOk, capStop, summary >>
    ]_vars

\* C13 witness: in a real run the first attachment of the page had no
\* activity identifier, one notice was logged, and a later attachment of
\* the same page is being deleted.
C13_Witness ==
  /\ ~DRY_RUN
  /\ pc = "awaitDelete"
  /\ ai > 1
  /\ HasAttachmentId(attachments[1])
  /\ NoActivityId(attachments[1])
  /\ nSkipLogs = 1
  /\ deletedCount = 0

\* attachment j of ticket t, as listed, has an identifier
ListedWithId(t, j) ==
  TicketHasId(t) /\ Cyc(scn.ac, t + j) \in {"full", "update", "noact"}

AllListed == (1..scn.n) \X (1..scn.m)

\* C14 (as claimed): in dry-run every listed attachment that has an
\* identifier is logged and counted, so the counter at the end of an
\* uncapped dry run is the number of listed attachments with an identifier.
C14_DryRunCountsEveryId ==
  (DRY_RUN /\ pc = "done" /\ ~capStop /\ ~srvMalformed)
    => deletedCount = Cardinality({ p \in AllListed : ListedWithId(p[1], p[2]) })

\* C14 (amended): in dry-run the counter is the number of would-delete
\* lines, and at the end of an uncapped dry run it is the number of listed
\* attachments that have an identifier and an activity identifier; those
\* with an identifier but no activity identifier got the [SKIP] notice
\* instead, as in a real run.
C14_DryRunCountsDeletable ==
  DRY_RUN
    => /\ deletedCount = nDryLogs
       /\ (pc = "done" /\ ~capStop /\ ~srvMalformed)
            => /\ deletedCount =
                    Cardinality({ p \in AllListed : Deletable(p[1], p[2]) })
               /\ nSkipLogs =
                    Cardinality({ p \in AllListed :
                                    ListedWithId(p[1], p[2]) /\ ~Deletable(p[1], p[2]) })

\* C14 witness: an uncapped dry run has ended with attachments counted and
\* attachments skipped for their missing activity identifier.
C14_Witness ==
  /\ DRY_RUN
  /\ pc = "done"
  /\ ~capStop
  /\ deletedCount >= 1
  /\ nSkipLogs >= 1

\* C15 (as claimed): every ticket-listing request of a run carries the same
\* cutoff, also when the clock advances between the page requests.
C15_OneCutoff ==
  Cardinality(cutoffsSent) <= 1

\* the three kinds of request, seen as steps
TicketsRequested == nTicketReqs' = nTicketReqs + 1
AttachmentsRequested == nAttReqs' = nAttReqs + 1
DeleteRequested == nDeletes' = nDeletes + 1

\* C16: requests are strictly nested. Each walk asks pages 1, 2, 3, ... in
\* order; an attachment listing or a DELETE concerns the ticket the ticket
\* walk currently stands on, in the page the last ticket listing returned;
\* tickets are taken in listing order and one is left only after its
\* attachment walk received an empty or short page; the next ticket page is
\* asked only after the last ticket of the page was left; the next attachment
\* page is asked only after the last record of the page was handled, and a
\* DELETE concerns the record the attachment walk stands on.
C16_Step ==
  /\ TicketsRequested =>
       /\ req' = TicketsReq(nTicketReqs')
       /\ nTicketReqs = 0 \/ (ti = Len(tickets) + 1 /\ Len(tickets) = ticketsPerPage)
  /\ AttachmentsRequested =>
       /\ ti \in 1..Len(tickets)
       /\ req' = AttachmentsReq(ticketIdOf(tickets[ti])[1], nAttReqs')
       /\ nAttReqs = 0 \/ (ai = Len(attachments) + 1 /\ Len(attachments) = attachmentsPerPage)
  /\ DeleteRequested =>
       /\ ti \in 1..Len(tickets)
       /\ ai \in 1..Len(attachments)
       /\ req'.kind = "delete"
       /\ req'.attachment = attachmentIdOf(attachments[ai])[1]
       /\ req'.attachment \div 1000 = ticketIdOf(tickets[ti])[1]
       /\ nAttReqs >= 1
  /\ ti' # ti =>
       \/ ti' = 1 /\ pc = "awaitTickets"
       \/ /\ ti' = ti + 1
          /\ ti \in 1..Len(tickets)
          /\ ~Falsy(ticketIdOf(tickets[ti])) =>
               /\ Len(attSizes') = nAttReqs
               /\ nAttReqs >= 1
               /\ attSizes'[nAttReqs] < attachmentsPerPage
  /\ ai' # ai =>
       \/ ai' = 1 /\ pc = "awaitAttachments"
       \/ ai' = ai + 1 /\ ai \in 1..Len(attachments)

C16_StrictNesting == [][C16_Step]_vars

\* a DELETE is in flight for a record of the second attachment page of the
\* second ticket, after the first ticket's walk of two pages
C16_Witness ==
  /\ pc = "awaitDelete"
  /\ ti = 2
  /\ nAttReqs = 2
  /\ nDeletes > attachmentsPerPage

\* C17: the counter starts at 0 and moves only by steps of +1; a run that
\* deletes has counted exactly the DELETE requests that succeeded so far, a
\* dry run exactly the intended-deletion lines logged so far.
C17_CounterAccounting ==
  /\ [](nTicketReqs = 0 => deletedCount = 0)
  /\ [](deletes(DRY_RUN) => deletedCount = nDeleteOk /\ nDryLogs = 0)
  /\ [](~deletes(DRY_RUN) => deletedCount = nDryLogs /\ nDeleteOk = 0)
  /\ [][deletedCount' \in {deletedCount, deletedCount + 1}]_vars
  /\ [][deletedCount' # deletedCount =>
          nDeleteOk' + nDryLogs' = nDeleteOk + nDryLogs + 1]_vars

\* two DELETE requests succeeded and were counted, a third is in flight
C17_Witness ==
  /\ deletes(DRY_RUN)
  /\ pc = "awaitDelete"
  /\ nDeletes = 3
  /\ nDeleteOk = 2
  /\ deletedCount = 2

Terminal == pc \in {"done", "failed"}

\* C18: over finite listings, with every request returning, run() ends
\* (completed, cap reached or failed), and until then it asks no more pages
\* than the listings have, plus the page that ends each walk.
C18_Terminates ==
  /\ <>Terminal
  /\ [](nTicketReqs <= scn.n \div ticketsPerPage + 1)
  /\ [](nAttReqs <= scn.m \div attachmentsPerPage + 1)

\* a run that ended normally after three ticket pages
C18_Witness ==
  /\ pc = "done"
  /\ ~capStop
  /\ nTicketReqs = 3

\* What a run over an unchanging, well-formed listing is expected to do,
\* written from the listing alone: nothing below mentions DRY_RUN.
\* the attachments a run selects, by identifier; identifiers grow in listing
\* order, so the k-th selected is the k-th smallest
SelectableIds ==
  { AttId(t, j) : <<t, j>> \in { q \in AllListed : Deletable(q[1], q[2]) } }
RankOf(x) == Cardinality({ y \in SelectableIds : y <= x })
\* tickets with identifier listed before ticket t
IdsBefore(t) == Cardinality({ i \in 1..(t - 1) : i <= scn.n /\ TicketHasId(i) })
AttPagesPerTicket == scn.m \div attachmentsPerPage + 1
TicketPagesTotal == scn.n \div ticketsPerPage + 1
\* the position of a listing request in the run's sequence of listing requests
ListingIndex(r) ==
  IF r.kind = "tickets"
    THEN r.page + IdsBefore((r.page - 1) * ticketsPerPage + 1) * AttPagesPerTicket
    ELSE ((r.ticket - 1) \div ticketsPerPage + 1)
           + IdsBefore(r.ticket) * AttPagesPerTicket + r.page
ValidListing(r) ==
  \/ r.kind = "tickets" /\ r.page \in 1..TicketPagesTotal
  \/ /\ r.kind = "attachments"
     /\ r.ticket \in 1..scn.n
     /\ TicketHasId(r.ticket)
     /\ r.page \in 1..AttPagesPerTicket
\* the listing page an attachment identifier is on
PageHolding(x) ==
  AttachmentsReq(x \div 1000, ((x % 1000) - 1) \div attachmentsPerPage + 1)
ExpectedCount ==
  LET total == Cardinality(SelectableIds)
      cap == IF MAX_DELETES < 1 THEN 1 ELSE MAX_DELETES
  IN  Min(total, cap)
StaticListing == ~srvDrops /\ ~srvMalformed

\* C19: over a listing that does not change, a dry run and a run that deletes
\* do the same thing but for the DELETE requests. Both send the same listing
\* requests in the same order (the k-th one sent is the k-th of the sequence
\* the listing determines), both select the same attachments in the same
\* order (the k-th one counted is the k-th selectable one of the listing),
\* and both end with the same count after the same number of listing
\* requests; the dry run sends no DELETE, the other run one per selection.
C19_Step ==
  StaticListing =>
    /\ nListings' = nListings + 1 =>
         /\ req'.kind \in {"tickets", "attachments"}
         /\ ValidListing(req')
         /\ ListingIndex(req') = nListings'
    /\ nDryLogs' = nDryLogs + 1 =>
         /\ ~deletes(DRY_RUN)
         /\ attachmentIdOf(attachments[ai])[1] \in SelectableIds
         /\ RankOf(attachmentIdOf(attachments[ai])[1]) = deletedCount'
    /\ nDeleteOk' = nDeleteOk + 1 =>
         /\ deletes(DRY_RUN)
         /\ req.attachment \in SelectableIds
         /\ RankOf(req.attachment) = deletedCount'
    /\ nDeletes' = nDeletes + 1 =>
         /\ deletes(DRY_RUN)
         /\ RankOf(req'.attachment) = deletedCount + 1

C19_End ==
  (StaticListing /\ pc = "done") =>
    /\ deletedCount = ExpectedCount
    /\ summary = <<ExpectedCount>>
    /\ capStop <=> (deletedCount >= MAX_DELETES /\ deletedCount >= 1)
    /\ capStop =>
         /\ ~Falsy(attachmentIdOf(attachments[ai]))
         /\ RankOf(attachmentIdOf(attachments[ai])[1]) = deletedCount
         /\ nListings = ListingIndex(PageHolding(attachmentIdOf(attachments[ai])[1]))
    /\ ~capStop =>
         nListings = TicketPagesTotal + IdsBefore(scn.n + 1) * AttPagesPerTicket
    /\ nDeletes = IF deletes(DRY_RUN) THEN deletedCount ELSE 0

C19_DryRunPreview == []C19_End /\ [][C19_Step]_vars

\* a dry run that ended at the cap on the second page of the second ticket,
\* where a run that deletes ends too
C19_Witness ==
  /\ StaticListing
  /\ ~deletes(DRY_RUN)
  /\ pc = "done"
  /\ capStop
  /\ ti = 2
  /\ attachmentPage = 2
  /\ nListings = 6
  /\ deletedCount = 200

\* C20: a run sends at most one DELETE for an attachment identifier, whether
\* the server keeps deleted attachments in its listings or drops them: a
\* DELETE never targets an identifier a DELETE of this run already targeted,
\* so there are as many targets as DELETE requests.
C20_OneDeletePerAttachment ==
  /\ [](Cardinality(deleteTargets) = nDeletes)
  /\ [][DeleteRequested =>
          /\ req'.kind = "delete"
          /\ req'.attachment \notin deleteTargets
          /\ deleteTargets' = deleteTargets \cup {req'.attachment}]_vars

\* the server drops what was deleted: after the 50 deletions of page 1 the
\* walk is on page 2, which now holds the records that were listed from 101
C20_Witness ==
  /\ srvDrops
  /\ pc = "awaitDelete"
  /\ nAttReqs = 2
  /\ nDeletes = attachmentsPerPage + 1
  /\ req.attachment % 1000 = 2 * attachmentsPerPage + 1

====
